---- MODULE Spec2Model ----
(***************************************************************************)
(* The pool record of the AMM program (programs/amm) and the fee/price     *)
(* conversions of invariant-types (decimals.rs).                           *)
(*                                                                         *)
(* The program computes on u64, u128 and U256 values.  They are kept at    *)
(* their full width: a value is a little-endian sequence of limbs in       *)
(* radix BASE with no leading zero limb (zero is the empty sequence), and  *)
(* the width checks of the code (checked_mul, try_into, ...) compare       *)
(* against 2^64, 2^128 and 2^256.                                          *)
(***************************************************************************)
EXTENDS Integers, Sequences, FiniteSets, TLC

\* ------------------------------------------------------------------------
\* Wide unsigned integers
\* ------------------------------------------------------------------------

BASE == 1000

Zero == <<>>
One == <<1>>

\* The limb of a at place i, zero above its length.
Limb(a, i) == IF i <= Len(a) THEN a[i] ELSE 0

MaxOf(S) == CHOOSE m \in S : \A y \in S : y <= m

\* The limbs of a function on 1..n as a sequence.
Limbs(f, n) == SubSeq(f, 1, n)

\* Drop the most significant zero limbs.
Norm(a) ==
    IF a = <<>> THEN <<>>
    ELSE IF a[Len(a)] # 0 THEN a
    ELSE LET nz == {i \in 1..Len(a) : a[i] # 0}
         IN IF nz = {} THEN <<>> ELSE SubSeq(a, 1, MaxOf(nz))

RECURSIVE FromNat(_)
FromNat(n) ==
    IF n = 0 THEN <<>> ELSE <<n % BASE>> \o FromNat(n \div BASE)

\* The value of a decimal numeral written as groups of three digits, most
\* significant group first (the groups are the limbs in radix 1000).
Dec(groups) ==
    Norm(Limbs([i \in 1..Len(groups) |-> groups[Len(groups) + 1 - i]], Len(groups)))

\* a * BASE^k and a \div BASE^k.
ShiftUp(a, k) == IF a = <<>> THEN <<>> ELSE [i \in 1..k |-> 0] \o a
ShiftDown(a, k) == IF Len(a) <= k THEN <<>> ELSE SubSeq(a, k + 1, Len(a))

\* 10^n.
Pow10(n) ==
    ShiftUp(<<(IF n % 3 = 0 THEN 1 ELSE IF n % 3 = 1 THEN 10 ELSE 100)>>, n \div 3)

\* b = BASE^k for some k.
IsPowerOfBase(b) ==
    /\ b # <<>>
    /\ b[Len(b)] = 1
    /\ \A i \in 1..(Len(b) - 1) : b[i] = 0

RECURSIVE CmpFrom(_, _, _)
\* Compare two values of equal length from limb i downwards.
CmpFrom(a, b, i) ==
    IF i = 0 THEN 0
    ELSE IF a[i] < b[i] THEN -1
    ELSE IF a[i] > b[i] THEN 1
    ELSE CmpFrom(a, b, i - 1)

BigCmp(a, b) ==
    IF Len(a) < Len(b) THEN -1
    ELSE IF Len(a) > Len(b) THEN 1
    ELSE CmpFrom(a, b, Len(a))

BigLt(a, b) == BigCmp(a, b) < 0
BigLe(a, b) == BigCmp(a, b) <= 0

RECURSIVE Carry(_, _)
\* The carry into place i of the limb sums s: the place below overflows, or
\* holds BASE - 1 and is carried into.
Carry(s, i) ==
    IF i = 1 THEN 0
    ELSE IF s[i - 1] >= BASE THEN 1
    ELSE IF s[i - 1] < BASE - 1 THEN 0
    ELSE Carry(s, i - 1)

\* The sum of two limb vectors (limbs below BASE, leading zeros allowed).
AddLimbs(a, b) ==
    LET n == (IF Len(a) > Len(b) THEN Len(a) ELSE Len(b)) + 1
        s == Limbs([i \in 1..n |-> Limb(a, i) + Limb(b, i)], n)
    IN Norm(Limbs([i \in 1..n |-> (s[i] + Carry(s, i)) % BASE], n))

BigAdd(a, b) == IF b = <<>> THEN a ELSE IF a = <<>> THEN b ELSE AddLimbs(a, b)

RECURSIVE Borrow(_, _, _)
\* The borrow into place i of a - b: the place below is short, or is level
\* and is borrowed from.
Borrow(a, b, i) ==
    IF i = 1 THEN 0
    ELSE IF a[i - 1] < Limb(b, i - 1) THEN 1
    ELSE IF a[i - 1] > Limb(b, i - 1) THEN 0
    ELSE Borrow(a, b, i - 1)

\* a - b for b <= a.
BigSub(a, b) ==
    IF b = <<>> THEN a
    ELSE Norm(Limbs([i \in 1..Len(a) |->
                       (a[i] - Limb(b, i) - Borrow(a, b, i) + BASE) % BASE], Len(a)))

\* a * d for a limb d in 0 .. BASE - 1: the low and the high limbs of the
\* limb products, added.
BigMulSmall(a, d) ==
    IF d = 0 \/ a = <<>> THEN <<>>
    ELSE IF d = 1 THEN a
    ELSE LET n == Len(a)
             p == Limbs([i \in 1..n |-> a[i] * d], n)
         IN AddLimbs(Limbs([i \in 1..n |-> p[i] % BASE], n),
                     <<0>> \o Limbs([i \in 1..n |-> p[i] \div BASE], n))

RECURSIVE ColSum(_, _, _, _)
\* The sum of a[i] * b[k + 1 - i] over the places i of a from i upwards.
ColSum(a, b, k, i) ==
    IF i > Len(a) \/ i > k THEN 0
    ELSE (IF k + 1 - i <= Len(b) THEN a[i] * b[k + 1 - i] ELSE 0)
         + ColSum(a, b, k, i + 1)

\* a * b: the column sums (below 2^31 for values of up to 2,000 limbs) split
\* into three limb vectors and added; a power of BASE shifts.
BigMul(a, b) ==
    IF a = <<>> \/ b = <<>> THEN <<>>
    ELSE IF IsPowerOfBase(b) THEN ShiftUp(a, Len(b) - 1)
    ELSE IF IsPowerOfBase(a) THEN ShiftUp(b, Len(a) - 1)
    ELSE IF Len(b) = 1 THEN BigMulSmall(a, b[1])
    ELSE IF Len(a) = 1 THEN BigMulSmall(b, a[1])
    ELSE LET n   == Len(a) + Len(b)
             col == Limbs([k \in 1..n |-> ColSum(a, b, k, 1)], n)
             c0  == Limbs([k \in 1..n |-> col[k] % BASE], n)
             c1  == Limbs([k \in 1..n |-> IF k = 1 THEN 0 ELSE (col[k - 1] \div BASE) % BASE], n)
             c2  == Limbs([k \in 1..n |-> IF k <= 2 THEN 0 ELSE col[k - 2] \div (BASE * BASE)], n)
         IN AddLimbs(AddLimbs(c0, c1), c2)

\* The machine integer of a value of at most three limbs.
LimbsToNat(a) == Limb(a, 1) + BASE * Limb(a, 2) + BASE * BASE * Limb(a, 3)

RECURSIVE FixDown(_, _, _)
\* The largest d' <= d with b * d' <= cur.
FixDown(cur, b, d) ==
    IF BigLe(BigMulSmall(b, d), cur) THEN d ELSE FixDown(cur, b, d - 1)

\* cur \div b, for cur < BASE * b: one limb of a quotient.  The estimate from
\* the leading limbs is never below the quotient.
QuotLimb(cur, b) ==
    IF BigLt(cur, b) THEN 0
    ELSE LET n   == Len(b)
             cut == IF n >= 2 THEN n - 1 ELSE 1
             ct  == LimbsToNat(SubSeq(cur, cut, Len(cur)))
             bt  == LimbsToNat(SubSeq(b, cut, n))
             est == ct \div bt
         IN FixDown(cur, b, IF est > BASE - 1 THEN BASE - 1 ELSE est)

RECURSIVE DivLoop(_, _, _, _, _)
\* Long division, most significant limb first: q and r are the quotient and
\* the remainder of the limbs of a above limb i.
DivLoop(a, b, i, q, r) ==
    IF i = 0 THEN [q |-> Norm(q), r |-> r]
    ELSE LET cur == Norm(<<a[i]>> \o r)
             d   == QuotLimb(cur, b)
         IN IF d = 0
            THEN DivLoop(a, b, i - 1, <<0>> \o q, cur)
            ELSE DivLoop(a, b, i - 1, <<d>> \o q, BigSub(cur, BigMulSmall(b, d)))

\* [q |-> a \div b, r |-> a % b] for b # 0; a power of BASE shifts.
BigDivMod(a, b) ==
    IF IsPowerOfBase(b)
    THEN [q |-> ShiftDown(a, Len(b) - 1),
          r |-> Norm(SubSeq(a, 1, IF Len(a) < Len(b) - 1 THEN Len(a) ELSE Len(b) - 1))]
    ELSE IF BigLt(a, b) THEN [q |-> <<>>, r |-> a]
    ELSE DivLoop(a, b, Len(a), <<>>, <<>>)

BigDiv(a, b) == BigDivMod(a, b).q
BigMod(a, b) == BigDivMod(a, b).r

\* ------------------------------------------------------------------------
\* Integer widths and checked operations
\* ------------------------------------------------------------------------

\* 2^64 - 1, 2^128 - 1 and 2^256 - 1.
U64_MAX == Dec(<<18, 446, 744, 073, 709, 551, 615>>)
U128_MAX ==
    Dec(<<340, 282, 366, 920, 938, 463, 463, 374, 607, 431, 768, 211, 455>>)
U256_MAX ==
    Dec(<<115, 792, 089, 237, 316, 195, 423, 570, 985, 008, 687, 907, 853,
          269, 984, 665, 640, 564, 039, 457, 584, 007, 913, 129, 639, 935>>)

\* Option<T>: Some(v) or None.
Some(v) == [some |-> TRUE, v |-> v]
None == [some |-> FALSE, v |-> Zero]

\* The checked operations of an unsigned type whose largest value is max.
checked_add(a, b, max) ==
    LET s == BigAdd(a, b) IN IF BigLe(s, max) THEN Some(s) ELSE None
checked_sub(a, b) ==
    IF BigLe(b, a) THEN Some(BigSub(a, b)) ELSE None
checked_mul(a, b, max) ==
    LET m == BigMul(a, b) IN IF BigLe(m, max) THEN Some(m) ELSE None
checked_div(a, b) ==
    IF b = Zero THEN None ELSE Some(BigDiv(a, b))
\* try_into() a narrower unsigned type.
try_into(a, max) == IF BigLe(a, max) THEN Some(a) ELSE None

\* ------------------------------------------------------------------------
\* programs/amm: Decimal (a u128 with twelve decimal places)
\* ------------------------------------------------------------------------

DecimalScale == 12
DENOMINATOR == Pow10(DecimalScale)

Decimal_new(v) == v
Decimal_one == DENOMINATOR
Decimal_from_integer(n) == BigMul(n, DENOMINATOR)

\* Decimal::from_decimal(val, scale): val * 10^-scale at the type's scale,
\* truncated toward zero when the scale goes down.
Decimal_from_decimal(val, scale) ==
    IF DecimalScale >= scale
    THEN BigMul(val, Pow10(DecimalScale - scale))
    ELSE BigDiv(val, Pow10(scale - DecimalScale))

\* a + b and a - b: fail (None) when u128 cannot hold the result.
Decimal_add(a, b) == checked_add(a, b, U128_MAX)
Decimal_sub(a, b) == checked_sub(a, b)

\* a / b: a * 10^12 / b on the wide intermediate, rounded down; fails on a
\* zero divisor and when the quotient does not fit u128.
Decimal_div(a, b) ==
    IF b = Zero THEN None
    ELSE try_into(BigDiv(BigMul(a, DENOMINATOR), b), U128_MAX)

\* a * b rounded up: ceil(a * b / 10^12).
Decimal_big_mul_up(a, b) ==
    BigDiv(BigAdd(BigMul(a, b), BigSub(DENOMINATOR, One)), DENOMINATOR)

\* sqrt(1.0001)^(2^(k-1)) at twelve decimal places, k = 1 .. 5.
SqrtPowers ==
    << Dec(<<1, 000, 049, 998, 750>>),
       Dec(<<1, 000, 100, 000, 000>>),
       Dec(<<1, 000, 200, 010, 000>>),
       Dec(<<1, 000, 400, 060, 004>>),
       Dec(<<1, 000, 800, 280, 056>>) >>

RECURSIVE PriceProduct(_, _, _)
\* The product of the constants of the set bits of n, from bit k upwards.
PriceProduct(n, k, acc) ==
    IF n = 0 \/ k > Len(SqrtPowers) THEN acc
    ELSE PriceProduct(n \div 2, k + 1,
                      IF n % 2 = 1 THEN Decimal_big_mul_up(acc, SqrtPowers[k]) ELSE acc)

\* calculate_price_sqrt(tick_index), for |tick_index| < 2^5.
calculate_price_sqrt(tick_index) ==
    LET abs == IF tick_index < 0 THEN -tick_index ELSE tick_index
        p   == PriceProduct(abs, 1, Decimal_one)
    IN IF tick_index < 0
       THEN BigDiv(BigAdd(BigMul(DENOMINATOR, DENOMINATOR), BigSub(p, One)), p)
       ELSE p

\* ------------------------------------------------------------------------
\* programs/amm: the pool record
\* ------------------------------------------------------------------------

\* Pool::default(): the zeroed account.
DefaultPool ==
    [ token_x |-> "", token_y |-> "", token_x_reserve |-> "", token_y_reserve |-> "",
      position_iterator |-> 0, tick_spacing |-> 0,
      fee |-> Zero, protocol_fee |-> Zero, liquidity |-> Zero, sqrt_price |-> Zero,
      current_tick_index |-> 0, tickmap |-> "",
      fee_growth_global_x |-> Zero, fee_growth_global_y |-> Zero,
      fee_protocol_token_x |-> Zero, fee_protocol_token_y |-> Zero,
      bump |-> 0, nonce |-> 0, authority |-> "" ]

\* The fee tiers a pool is created from: fee, tick_spacing, bump.
FeeTiers ==
    { [fee |-> Dec(<<600, 000, 000>>), tick_spacing |-> 10, bump |-> 254],
      [fee |-> Dec(<<3, 000, 000, 000>>), tick_spacing |-> 5, bump |-> 255] }

\* The accounts and the bumps of a create_pool instruction.
CreateAccounts ==
    [ token_x |-> "token_x", token_y |-> "token_y",
      token_x_reserve |-> "token_x_reserve", token_y_reserve |-> "token_y_reserve",
      tickmap |-> "tickmap", program_authority |-> "program_authority",
      bump |-> 253, nonce |-> 252 ]

\* The handler leaving current_tick_index at its default.
handler_default_tick(accounts, fee_tier, init_tick) ==
    [ DefaultPool EXCEPT
      !.token_x = accounts.token_x,
      !.token_y = accounts.token_y,
      !.token_x_reserve = accounts.token_x_reserve,
      !.token_y_reserve = accounts.token_y_reserve,
      !.tick_spacing = fee_tier.tick_spacing,
      !.fee = fee_tier.fee,
      !.protocol_fee = Decimal_from_decimal(FromNat(1), 1),
      !.sqrt_price = calculate_price_sqrt(init_tick),
      !.tickmap = accounts.tickmap,
      !.bump = accounts.bump,
      !.nonce = accounts.nonce,
      !.authority = accounts.program_authority ]

\* The handler writing the price of tick 0 whatever the initial tick.
handler_unit_price(accounts, fee_tier, init_tick) ==
    [ DefaultPool EXCEPT
      !.token_x = accounts.token_x,
      !.token_y = accounts.token_y,
      !.token_x_reserve = accounts.token_x_reserve,
      !.token_y_reserve = accounts.token_y_reserve,
      !.tick_spacing = fee_tier.tick_spacing,
      !.fee = fee_tier.fee,
      !.protocol_fee = Decimal_from_decimal(FromNat(1), 1),
      !.sqrt_price = Decimal_one,
      !.current_tick_index = init_tick,
      !.tickmap = accounts.tickmap,
      !.bump = accounts.bump,
      !.nonce = accounts.nonce,
      !.authority = accounts.program_authority ]

\* create_pool::handler: the record written into the new account.
handler(accounts, fee_tier, init_tick) ==
    [ token_x |-> accounts.token_x,
      token_y |-> accounts.token_y,
      token_x_reserve |-> accounts.token_x_reserve,
      token_y_reserve |-> accounts.token_y_reserve,
      tick_spacing |-> fee_tier.tick_spacing,
      fee |-> fee_tier.fee,
      protocol_fee |-> Decimal_from_decimal(FromNat(1), 1),
      liquidity |-> Decimal_new(Zero),
      sqrt_price |-> calculate_price_sqrt(init_tick),
      current_tick_index |-> init_tick,
      tickmap |-> accounts.tickmap,
      fee_growth_global_x |-> Decimal_new(Zero),
      fee_growth_global_y |-> Decimal_new(Zero),
      fee_protocol_token_x |-> Decimal_new(Zero),
      fee_protocol_token_y |-> Decimal_new(Zero),
      position_iterator |-> 0,
      bump |-> accounts.bump,
      nonce |-> accounts.nonce,
      authority |-> accounts.program_authority ]

\* add_fee without the guard on zero liquidity.
add_fee_unguarded(self, amount, x) ==
    IF amount = Decimal_new(Zero)
    THEN [pool |-> self, res |-> "Ok"]
    ELSE LET q == Decimal_div(amount, self.liquidity)
             g == IF x THEN self.fee_growth_global_x ELSE self.fee_growth_global_y
             s == IF q.some THEN Decimal_add(g, q.v) ELSE None
         IN IF ~s.some THEN [pool |-> self, res |-> "Panic"]
            ELSE IF x
            THEN [pool |-> [self EXCEPT !.fee_growth_global_x = s.v], res |-> "Ok"]
            ELSE [pool |-> [self EXCEPT !.fee_growth_global_y = s.v], res |-> "Ok"]

\* add_fee accruing token-x fees to the y accumulator and y fees to x.
add_fee_swapped(self, amount, x) ==
    IF amount = Decimal_new(Zero) \/ self.liquidity = Decimal_new(Zero)
    THEN [pool |-> self, res |-> "Ok"]
    ELSE LET q == Decimal_div(amount, self.liquidity)
             g == IF x THEN self.fee_growth_global_y ELSE self.fee_growth_global_x
             s == IF q.some THEN Decimal_add(g, q.v) ELSE None
         IN IF ~s.some THEN [pool |-> self, res |-> "Panic"]
            ELSE IF x
            THEN [pool |-> [self EXCEPT !.fee_growth_global_y = s.v], res |-> "Ok"]
            ELSE [pool |-> [self EXCEPT !.fee_growth_global_x = s.v], res |-> "Ok"]

\* add_fee with a wrapping addition (u128::wrapping_add) in place of the
\* checked one.
add_fee_wrapping(self, amount, x) ==
    IF amount = Decimal_new(Zero) \/ self.liquidity = Decimal_new(Zero)
    THEN [pool |-> self, res |-> "Ok"]
    ELSE LET q == Decimal_div(amount, self.liquidity)
             g == IF x THEN self.fee_growth_global_x ELSE self.fee_growth_global_y
             s == IF q.some THEN BigMod(BigAdd(g, q.v), BigAdd(U128_MAX, One)) ELSE Zero
         IN IF ~q.some THEN [pool |-> self, res |-> "Panic"]
            ELSE IF x
            THEN [pool |-> [self EXCEPT !.fee_growth_global_x = s], res |-> "Ok"]
            ELSE [pool |-> [self EXCEPT !.fee_growth_global_y = s], res |-> "Ok"]

\* Pool::add_fee(amount, x): the pool after the call and how the call ended
\* ("Ok", or "Panic" when an operator's unwrap fails; the assignment is after
\* the arithmetic, so a panic leaves the record as it was).
add_fee(self, amount, x) ==
    IF amount = Decimal_new(Zero) \/ self.liquidity = Decimal_new(Zero)
    THEN [pool |-> self, res |-> "Ok"]
    ELSE LET q == Decimal_div(amount, self.liquidity)
             g == IF x THEN self.fee_growth_global_x ELSE self.fee_growth_global_y
             s == IF q.some THEN Decimal_add(g, q.v) ELSE None
         IN IF ~s.some THEN [pool |-> self, res |-> "Panic"]
            ELSE IF x
            THEN [pool |-> [self EXCEPT !.fee_growth_global_x = s.v], res |-> "Ok"]
            ELSE [pool |-> [self EXCEPT !.fee_growth_global_y = s.v], res |-> "Ok"]

\* update_liquidity_safely with the operands of the validation exchanged.
update_liquidity_safely_reversed(self, liquidity_delta, add) ==
    IF ~add /\ BigLt(liquidity_delta, self.liquidity)
    THEN [pool |-> self, res |-> "InvalidPoolLiquidity"]
    ELSE LET n == IF add THEN Decimal_add(self.liquidity, liquidity_delta)
                  ELSE Decimal_sub(self.liquidity, liquidity_delta)
         IN IF ~n.some THEN [pool |-> self, res |-> "Panic"]
            ELSE [pool |-> [self EXCEPT !.liquidity = n.v], res |-> "Ok"]

\* update_liquidity_safely validating with <= in place of <.
update_liquidity_safely_strict(self, liquidity_delta, add) ==
    IF ~add /\ BigLe(self.liquidity, liquidity_delta)
    THEN [pool |-> self, res |-> "InvalidPoolLiquidity"]
    ELSE LET n == IF add THEN Decimal_add(self.liquidity, liquidity_delta)
                  ELSE Decimal_sub(self.liquidity, liquidity_delta)
         IN IF ~n.some THEN [pool |-> self, res |-> "Panic"]
            ELSE [pool |-> [self EXCEPT !.liquidity = n.v], res |-> "Ok"]

\* update_liquidity_safely writing a saturated liquidity before it validates.
update_liquidity_safely_late(self, liquidity_delta, add) ==
    IF ~add /\ BigLt(self.liquidity, liquidity_delta)
    THEN [pool |-> [self EXCEPT !.liquidity = Zero], res |-> "InvalidPoolLiquidity"]
    ELSE LET n == IF add THEN Decimal_add(self.liquidity, liquidity_delta)
                  ELSE Decimal_sub(self.liquidity, liquidity_delta)
         IN IF ~n.some THEN [pool |-> self, res |-> "Panic"]
            ELSE [pool |-> [self EXCEPT !.liquidity = n.v], res |-> "Ok"]

\* Pool::update_liquidity_safely(liquidity_delta, add).
update_liquidity_safely(self, liquidity_delta, add) ==
    IF ~add /\ BigLt(self.liquidity, liquidity_delta)
    THEN [pool |-> self, res |-> "InvalidPoolLiquidity"]
    ELSE LET n == IF add THEN Decimal_add(self.liquidity, liquidity_delta)
                  ELSE Decimal_sub(self.liquidity, liquidity_delta)
         IN IF ~n.some THEN [pool |-> self, res |-> "Panic"]
            ELSE [pool |-> [self EXCEPT !.liquidity = n.v], res |-> "Ok"]

\* ------------------------------------------------------------------------
\* invariant-types: Price, Liquidity, FeeGrowth, FixedPoint, TokenAmount
\* ------------------------------------------------------------------------

PriceScale == 24
LiquidityScale == 6
FeeGrowthScale == 24
FixedPointScale == 12
TokenAmountScale == 0

Price_one == Pow10(PriceScale)
Price_almost_one == BigSub(Price_one, One)
Liquidity_one == Pow10(LiquidityScale)
FeeGrowth_one == Pow10(FeeGrowthScale)
FixedPoint_one == Pow10(FixedPointScale)

Liquidity_from_integer(n) == BigMul(n, Liquidity_one)

\* FixedPoint::from_decimal(TokenAmount): the amount at FixedPoint's scale.
FixedPoint_from_decimal(amount) ==
    BigMul(amount, Pow10(FixedPointScale - TokenAmountScale))

\* How a call ends: with a value, with Option::None, or in a panic.
Value(v) == [kind |-> "Value", v |-> v]
Absent == [kind |-> "None", v |-> Zero]
Panic == [kind |-> "Panic", v |-> Zero]

\* a.big_mul(b) and a.big_mul_up(b) for 128-bit a and b, b of scale bscale:
\* a * b / 10^bscale on U256, rounded down or up, narrowed to u128.
big_mul(a, b, bscale) ==
    LET m == checked_mul(a, b, U256_MAX)
        d == IF m.some THEN checked_div(m.v, Pow10(bscale)) ELSE None
        n == IF d.some THEN try_into(d.v, U128_MAX) ELSE None
    IN IF n.some THEN Value(n.v) ELSE Panic

\* big_mul_up without the rounding term.
big_mul_up_floor(a, b, bscale) == big_mul(a, b, bscale)

big_mul_up(a, b, bscale) ==
    LET m == checked_mul(a, b, U256_MAX)
        u == IF m.some THEN checked_add(m.v, BigSub(Pow10(bscale), One), U256_MAX) ELSE None
        d == IF u.some THEN checked_div(u.v, Pow10(bscale)) ELSE None
        n == IF d.some THEN try_into(d.v, U128_MAX) ELSE None
    IN IF n.some THEN Value(n.v) ELSE Panic

\* from_fee without the factor Liquidity::one().
from_fee_unscaled(liquidity, fee) ==
    LET m1 == checked_mul(fee, FeeGrowth_one, U256_MAX)
        d  == IF m1.some THEN checked_div(m1.v, liquidity) ELSE None
        n  == IF d.some THEN try_into(d.v, U128_MAX) ELSE None
    IN IF n.some THEN Value(n.v) ELSE Panic

\* FeeGrowth::from_fee(liquidity, fee).
from_fee(liquidity, fee) ==
    LET m1 == checked_mul(fee, FeeGrowth_one, U256_MAX)
        m2 == IF m1.some THEN checked_mul(m1.v, Liquidity_one, U256_MAX) ELSE None
        d  == IF m2.some THEN checked_div(m2.v, liquidity) ELSE None
        n  == IF d.some THEN try_into(d.v, U128_MAX) ELSE None
    IN IF n.some THEN Value(n.v) ELSE Panic

\* to_fee narrowing with a saturating conversion in place of the failing one.
to_fee_saturating(self, liquidity) ==
    LET m == checked_mul(self, liquidity, U256_MAX)
        d == IF m.some
             THEN checked_div(m.v, Pow10(FeeGrowthScale + LiquidityScale - FixedPointScale))
             ELSE None
        n == IF d.some THEN try_into(d.v, U128_MAX) ELSE None
    IN IF ~d.some THEN Panic
       ELSE IF n.some THEN Value(n.v) ELSE Value(U128_MAX)

\* FeeGrowth::to_fee(self, liquidity).
to_fee(self, liquidity) ==
    LET m == checked_mul(self, liquidity, U256_MAX)
        d == IF m.some
             THEN checked_div(m.v, Pow10(FeeGrowthScale + LiquidityScale - FixedPointScale))
             ELSE None
        n == IF d.some THEN try_into(d.v, U128_MAX) ELSE None
    IN IF n.some THEN Value(n.v) ELSE Panic

\* Price::big_div_values_to_token(nominator, denominator).
big_div_values_to_token(nominator, denominator) ==
    LET extended_nominator == checked_mul(nominator, Price_one, U256_MAX)
        q1 == checked_div(extended_nominator.v, denominator)
        q2 == checked_div(q1.v, Price_one)
        token_amount == try_into(q2.v, U64_MAX)
    IN IF ~extended_nominator.some THEN Absent
       ELSE IF ~q1.some THEN Panic
       ELSE IF ~q2.some THEN Panic
       ELSE IF ~token_amount.some THEN Absent
       ELSE [kind |-> "Some", v |-> token_amount.v]

\* Price::big_div_values_to_token_up(nominator, denominator).
big_div_values_to_token_up(nominator, denominator) ==
    LET m  == checked_mul(nominator, Price_one, U256_MAX)
        s  == checked_sub(denominator, One)
        a1 == IF m.some /\ s.some THEN checked_add(m.v, s.v, U256_MAX) ELSE None
        q1 == IF a1.some THEN checked_div(a1.v, denominator) ELSE None
        a2 == IF q1.some THEN checked_add(q1.v, Price_almost_one, U256_MAX) ELSE None
        q2 == IF a2.some THEN checked_div(a2.v, Price_one) ELSE None
    IN IF ~q2.some THEN Panic
       ELSE IF ~try_into(q2.v, U64_MAX).some THEN Absent
       ELSE [kind |-> "Some", v |-> q2.v]

\* ------------------------------------------------------------------------
\* The pool's life: creation, then fee accruals and liquidity updates
\* ------------------------------------------------------------------------

MaxSteps == 3

InitTicks == {-3, 0, 2}

\* Amounts and liquidity deltas of the calls, as Decimal values.
FeeAmounts == { Zero, Decimal_one, U128_MAX }
LiquidityDeltas ==
    { Zero, Decimal_new(One), Decimal_one, Decimal_from_integer(FromNat(3)), U128_MAX }

VARIABLES
    pool,       \* the pool account
    created,    \* whether create_pool has initialised the account
    pre,        \* the pool account before the last call
    call,       \* the last call: its operation, arguments and result
    steps,      \* calls made on the pool since its creation
    eval        \* the last evaluation of a conversion: its arguments and results

vars == <<pool, created, pre, call, steps, eval>>

NoTier == [fee |-> Zero, tick_spacing |-> 0, bump |-> 0]
NoCall ==
    [op |-> "none", arg |-> Zero, flag |-> FALSE, res |-> "Ok", tick |-> 0, tier |-> NoTier]

NoEval == [fn |-> "none", a |-> Zero, b |-> Zero, r |-> Panic, r2 |-> Panic]

Init ==
    /\ eval = NoEval
    /\ pool = DefaultPool
    /\ created = FALSE
    /\ pre = DefaultPool
    /\ call = NoCall
    /\ steps = 0

CreatePool ==
    /\ ~created
    /\ \E init_tick \in InitTicks, fee_tier \in FeeTiers :
         /\ pool' = handler(CreateAccounts, fee_tier, init_tick)
         /\ call' = [op |-> "create_pool", arg |-> Zero, flag |-> FALSE,
                     res |-> "Ok", tick |-> init_tick, tier |-> fee_tier]
    /\ created' = TRUE
    /\ pre' = pool
    /\ steps' = 0
    /\ UNCHANGED eval

AddFee ==
    /\ created
    /\ steps < MaxSteps
    /\ \E amount \in FeeAmounts, x \in BOOLEAN :
         LET r == add_fee(pool, amount, x)
         IN /\ pool' = r.pool
            /\ call' = [op |-> "add_fee", arg |-> amount, flag |-> x,
                        res |-> r.res, tick |-> 0, tier |-> NoTier]
    /\ pre' = pool
    /\ steps' = steps + 1
    /\ UNCHANGED <<created, eval>>

UpdateLiquiditySafely ==
    /\ created
    /\ steps < MaxSteps
    /\ \E liquidity_delta \in LiquidityDeltas, add \in BOOLEAN :
         LET r == update_liquidity_safely(pool, liquidity_delta, add)
         IN /\ pool' = r.pool
            /\ call' = [op |-> "update_liquidity_safely", arg |-> liquidity_delta,
                        flag |-> add, res |-> r.res, tick |-> 0, tier |-> NoTier]
    /\ pre' = pool
    /\ steps' = steps + 1
    /\ UNCHANGED <<created, eval>>

Next == CreatePool \/ AddFee \/ UpdateLiquiditySafely

Spec == Init /\ [][Next]_vars

\* ------------------------------------------------------------------------
\* The conversions of decimals.rs, each applied to arguments of its type
\* ------------------------------------------------------------------------

\* Liquidity values (u128): 0, 0.000001, 0.000003, 0.000007, 1, 2, 10^6,
\* u64::MAX, 2^77, 10^19 units, and u128::MAX.
Liquidities ==
    { Zero, One, FromNat(3), FromNat(7),
      Liquidity_from_integer(One), Liquidity_from_integer(FromNat(2)),
      Liquidity_from_integer(Pow10(6)),
      Liquidity_from_integer(U64_MAX),
      Liquidity_from_integer(Dec(<<151, 115, 727, 451, 828, 646, 838, 272>>)),
      Liquidity_from_integer(Pow10(19)),
      U128_MAX }

\* Token amounts (u64).
TokenAmounts ==
    { Zero, One, FromNat(100), Pow10(6), Pow10(14), BigMul(FromNat(6), Pow10(17)), U64_MAX }

\* Operands of the cross-type multiplications: a Liquidity and a Price.
MulLiquidities ==
    { Zero, One, Liquidity_one, Dec(<<4, 902, 430, 892, 340, 393>>),
      Liquidity_from_integer(Pow10(19)), U128_MAX }
MulPrices ==
    { Zero, One, Price_one, BigMul(FromNat(5), Pow10(23)),
      Dec(<<9, 833, 489, 034, 289, 032, 430, 082, 130, 832>>), U128_MAX }

\* Nominators and denominators (U256) of big_div_values_to_token: 2^224 and
\* the least nominator whose product with 10^24 overflows are among them.
MinOverflowNominator ==
    Dec(<<115, 792, 089, 237, 316, 195, 423, 570, 985, 008, 687, 907, 853, 269, 984, 665, 640, 565>>)
Nominators ==
    { Zero, One, Pow10(20), BigMul(U64_MAX, FromNat(7)),
      Dec(<<26, 959, 946, 667, 150, 639, 794, 667, 015, 087, 019, 630, 673, 637,
            144, 422, 540, 572, 481, 103, 610, 249, 216>>),
      BigSub(MinOverflowNominator, One), MinOverflowNominator, U256_MAX }
Denominators ==
    { Zero, One, FromNat(3), Dec(<<232, 835, 005, 780, 624>>), Price_one, U256_MAX }

\* FeeGrowth values (u128) of to_fee: 0, 10^-24, the growths of test_to_fee,
\* 10^-6, 1 and u128::MAX.
FeeGrowths ==
    { Zero, One, Dec(<<661, 744, 490, 042, 422>>), Pow10(18),
      BigMul(FromNat(6), Pow10(22)), FeeGrowth_one, U128_MAX }

\* Liquidity values of to_fee: those above, and the two around the largest
\* liquidity on which the fee of the growth u128::MAX fits 128 bits.
ToFeeLiquidities ==
    Liquidities \cup { Pow10(18), BigAdd(Pow10(18), One) }

DecimalsInit ==
    /\ eval = NoEval
    /\ pool = DefaultPool
    /\ created = FALSE
    /\ pre = DefaultPool
    /\ call = NoCall
    /\ steps = 0

Idle == eval.fn = "none"

\* from_fee(liquidity, amount), then to_fee of its growth on the same liquidity.
RoundTrip ==
    /\ Idle
    /\ \E liquidity \in Liquidities, amount \in TokenAmounts :
         LET g == from_fee(liquidity, amount)
         IN eval' = [fn |-> "round_trip", a |-> liquidity, b |-> amount, r |-> g,
                     r2 |-> IF g.kind = "Value" THEN to_fee(g.v, liquidity) ELSE Panic]
    /\ UNCHANGED <<pool, created, pre, call, steps>>

\* liquidity.big_mul(price) and liquidity.big_mul_up(price).
MulLiquidityPrice ==
    /\ Idle
    /\ \E liquidity \in MulLiquidities, price \in MulPrices :
         eval' = [fn |-> "liquidity_mul_price", a |-> liquidity, b |-> price,
                  r |-> big_mul(liquidity, price, PriceScale),
                  r2 |-> big_mul_up(liquidity, price, PriceScale)]
    /\ UNCHANGED <<pool, created, pre, call, steps>>

\* price.big_mul(liquidity) and price.big_mul_up(liquidity).
MulPriceLiquidity ==
    /\ Idle
    /\ \E price \in MulPrices, liquidity \in MulLiquidities :
         eval' = [fn |-> "price_mul_liquidity", a |-> price, b |-> liquidity,
                  r |-> big_mul(price, liquidity, LiquidityScale),
                  r2 |-> big_mul_up(price, liquidity, LiquidityScale)]
    /\ UNCHANGED <<pool, created, pre, call, steps>>

\* big_div_values_to_token and big_div_values_to_token_up.
BigDivValuesToToken ==
    /\ Idle
    /\ \E nominator \in Nominators, denominator \in Denominators :
         eval' = [fn |-> "big_div_values_to_token", a |-> nominator, b |-> denominator,
                  r |-> big_div_values_to_token(nominator, denominator),
                  r2 |-> big_div_values_to_token_up(nominator, denominator)]
    /\ UNCHANGED <<pool, created, pre, call, steps>>

\* growth.to_fee(liquidity) of a growth and a liquidity chosen independently.
ToFee ==
    /\ Idle
    /\ \E growth \in FeeGrowths, liquidity \in ToFeeLiquidities :
         eval' = [fn |-> "to_fee", a |-> growth, b |-> liquidity,
                  r |-> to_fee(growth, liquidity), r2 |-> Panic]
    /\ UNCHANGED <<pool, created, pre, call, steps>>

DecimalsNext ==
    RoundTrip \/ MulLiquidityPrice \/ MulPriceLiquidity \/ BigDivValuesToToken \/ ToFee

DecimalsSpec == DecimalsInit /\ [][DecimalsNext]_vars

\* ------------------------------------------------------------------------
\* Properties of the pool
\* ------------------------------------------------------------------------

IsAddFee == call.op = "add_fee"
IsUpdate == call.op = "update_liquidity_safely"
IsCreate == call.op = "create_pool"

\* C1: a removal (add = false) of more than the pool's liquidity returns
\* InvalidPoolLiquidity and leaves every field of the pool as it was.
C1_RemovalAboveLiquidityRejected ==
    (IsUpdate /\ ~call.flag /\ BigLt(pre.liquidity, call.arg))
        => (call.res = "InvalidPoolLiquidity" /\ pool = pre)

C1_Witness ==
    /\ IsUpdate /\ ~call.flag
    /\ pre.liquidity # Zero
    /\ BigLt(pre.liquidity, call.arg)
    /\ call.res = "InvalidPoolLiquidity"

\* C2: every update that is not rejected succeeds with the exact result: a
\* removal of delta <= liquidity (delta = liquidity included) leaves
\* liquidity - delta, an addition whose sum fits u128 leaves liquidity + delta.
C2_UpdateExact ==
    /\ (IsUpdate /\ ~call.flag /\ BigLe(call.arg, pre.liquidity))
           => (call.res = "Ok" /\ BigAdd(pool.liquidity, call.arg) = pre.liquidity)
    /\ (IsUpdate /\ call.flag /\ BigLe(BigAdd(pre.liquidity, call.arg), U128_MAX))
           => (call.res = "Ok" /\ pool.liquidity = BigAdd(pre.liquidity, call.arg))

C2_Witness ==
    /\ IsUpdate /\ ~call.flag
    /\ call.arg # Zero
    /\ call.arg = pre.liquidity
    /\ call.res = "Ok"
    /\ pool.liquidity = Zero

\* C3: add_fee with a zero amount or on a pool of zero liquidity changes no
\* field and does not fail (it never divides by a zero liquidity).
C3_AddFeeNoOp ==
    (IsAddFee /\ (call.arg = Zero \/ pre.liquidity = Zero))
        => (pool = pre /\ call.res = "Ok")

C3_Witness ==
    /\ IsAddFee
    /\ call.arg # Zero
    /\ pre.liquidity = Zero
    /\ call.res = "Ok"

\* The accumulator add_fee(_, x) accrues to, and the one it does not.
Matching(p, x) == IF x THEN p.fee_growth_global_x ELSE p.fee_growth_global_y
Other(p, x) == IF x THEN p.fee_growth_global_y ELSE p.fee_growth_global_x

\* The pool p with its two fee-growth accumulators cleared.
SansGrowth(p) ==
    [p EXCEPT !.fee_growth_global_x = Zero, !.fee_growth_global_y = Zero]

\* The accrual of C4: the matching accumulator grows by
\* floor(amount * 10^12 / liquidity), nothing else changes.
AccruedExactly ==
    /\ Matching(pool, call.flag)
         = BigAdd(Matching(pre, call.flag),
                  BigDiv(BigMul(call.arg, DENOMINATOR), pre.liquidity))
    /\ Other(pool, call.flag) = Other(pre, call.flag)
    /\ SansGrowth(pool) = SansGrowth(pre)

C5_FeeGrowthMonotonic ==
    /\ BigLe(pre.fee_growth_global_x, pool.fee_growth_global_x)
    /\ BigLe(pre.fee_growth_global_y, pool.fee_growth_global_y)

\* An accrual onto a full accumulator: the sum does not fit u128.
C5_Witness ==
    /\ IsAddFee /\ call.flag
    /\ pre.fee_growth_global_x = U128_MAX
    /\ call.arg # Zero /\ pre.liquidity = Decimal_one
    /\ call.res = "Panic"
    /\ pool.fee_growth_global_x = U128_MAX

\* C6: a call that fails, by InvalidPoolLiquidity or by arithmetic overflow,
\* leaves every field of the pool as it was before the call.
C6_FailureLeavesPool ==
    call.res # "Ok" => pool = pre

\* An addition of liquidity that overflows u128.
C6_Witness ==
    /\ IsUpdate /\ call.flag
    /\ pre.liquidity # Zero
    /\ ~BigLe(BigAdd(pre.liquidity, call.arg), U128_MAX)
    /\ call.res = "Panic"

\* C7: the pool create_pool writes has sqrt_price = calculate_price_sqrt(t)
\* and current_tick_index = t for the initial tick t, zero liquidity, zero
\* fee-growth and protocol-fee accumulators, position_iterator 0, a protocol
\* fee of 0.1, and the fee and tick_spacing of the fee tier.
C7_CreatedPool ==
    IsCreate =>
        /\ pool.sqrt_price = calculate_price_sqrt(call.tick)
        /\ pool.current_tick_index = call.tick
        /\ pool.liquidity = Zero
        /\ pool.fee_growth_global_x = Zero
        /\ pool.fee_growth_global_y = Zero
        /\ pool.fee_protocol_token_x = Zero
        /\ pool.fee_protocol_token_y = Zero
        /\ pool.position_iterator = 0
        /\ BigMul(pool.protocol_fee, FromNat(10)) = Decimal_one
        /\ pool.fee = call.tier.fee
        /\ pool.tick_spacing = call.tier.tick_spacing

C7_Witness ==
    /\ IsCreate
    /\ call.tick = -3
    /\ call.tier.tick_spacing = 5
    /\ pool.current_tick_index = -3
    /\ BigLt(pool.sqrt_price, Decimal_one)
    /\ pool.fee = Dec(<<3, 000, 000, 000>>)

\* C12: in every state from the creation of the pool on, after any sequence
\* of add_fee and update_liquidity_safely calls, sqrt_price is
\* calculate_price_sqrt(current_tick_index); neither call changes sqrt_price
\* or current_tick_index.
C12_PriceMatchesTick ==
    /\ created => pool.sqrt_price = calculate_price_sqrt(pool.current_tick_index)
    /\ (IsAddFee \/ IsUpdate) =>
           /\ pool.sqrt_price = pre.sqrt_price
           /\ pool.current_tick_index = pre.current_tick_index

\* A pool created at tick -3 after a liquidity update and a fee accrual that
\* both took effect.
C12_Witness ==
    /\ created
    /\ IsAddFee /\ call.res = "Ok"
    /\ pool.liquidity # Zero
    /\ pool.fee_growth_global_x # pre.fee_growth_global_x
    /\ pool.current_tick_index = -3
    /\ pool.sqrt_price = Dec(<<999, 850, 018, 748>>)

\* ------------------------------------------------------------------------
\* Properties of the conversions
\* ------------------------------------------------------------------------

\* A round trip on a liquidity L > 0 in which no step failed.
RoundTripDone ==
    /\ eval.fn = "round_trip"
    /\ eval.a # Zero
    /\ eval.r.kind = "Value"
    /\ eval.r2.kind = "Value"

\* C8 as stated: to_fee(from_fee(L, amount), L) is amount * 10^12.
C8_Original ==
    RoundTripDone => eval.r2.v = FixedPoint_from_decimal(eval.b)

\* C8, amended: for every liquidity L > 0 and amount for which no step
\* overflows, to_fee(from_fee(L, amount), L) is at most amount * 10^12, and is
\* amount * 10^12 exactly when L (its raw value) divides amount * 10^30.
C8_RoundTripFloor ==
    RoundTripDone =>
        /\ BigLe(eval.r2.v, FixedPoint_from_decimal(eval.b))
        /\ (eval.r2.v = FixedPoint_from_decimal(eval.b))
             <=> (BigMod(BigMul(eval.b, Pow10(30)), eval.a) = Zero)

\* The round trip of 10^14 tokens on a liquidity of 2^77.
C8_Witness ==
    /\ RoundTripDone
    /\ eval.a = Liquidity_from_integer(Dec(<<151, 115, 727, 451, 828, 646, 838, 272>>))
    /\ eval.b = Pow10(14)
    /\ eval.r.v = Dec(<<661, 744, 490, 042, 422>>)
    /\ eval.r2.v = Dec(<<99, 999, 999, 999, 999, 978, 859, 343, 891>>)

\* A cross-type multiplication whose floor and ceiling variants both succeed,
\* and the divisor it rescales by.
MulDone ==
    /\ eval.fn \in {"liquidity_mul_price", "price_mul_liquidity"}
    /\ eval.r.kind = "Value"
    /\ eval.r2.kind = "Value"
MulDivisor ==
    IF eval.fn = "liquidity_mul_price" THEN Pow10(PriceScale) ELSE Pow10(LiquidityScale)

\* C9: big_mul_up(a, b) - big_mul(a, b) is 0 or 1, and is 0 exactly when the
\* product a * b is a multiple of the rescaling divisor.
C9_CeilingWithinOne ==
    MulDone =>
        /\ BigLe(eval.r.v, eval.r2.v)
        /\ BigLe(BigSub(eval.r2.v, eval.r.v), One)
        /\ (eval.r2.v = eval.r.v)
             <=> (BigMod(BigMul(eval.a, eval.b), MulDivisor) = Zero)

\* The operands of test_decimal_ops.
C9_Witness ==
    /\ MulDone
    /\ eval.fn = "liquidity_mul_price"
    /\ eval.a = Dec(<<4, 902, 430, 892, 340, 393>>)
    /\ eval.b = Dec(<<9, 833, 489, 034, 289, 032, 430, 082, 130, 832>>)
    /\ eval.r.v = Dec(<<48, 208, 000, 421, 189, 050, 674>>)
    /\ eval.r2.v = BigAdd(eval.r.v, One)

\* nominator * 10^24 does not fit 256 bits.
NominatorOverflows == ~BigLe(BigMul(eval.a, Price_one), U256_MAX)
\* The quotients of the two variants, on unbounded integers.
FloorQuotient == BigDiv(BigDiv(BigMul(eval.a, Price_one), eval.b), Price_one)
CeilQuotient ==
    BigDiv(BigAdd(BigDiv(BigAdd(BigMul(eval.a, Price_one), BigSub(eval.b, One)), eval.b),
                  Price_almost_one),
           Price_one)

\* C10: for a non-zero denominator, big_div_values_to_token and
\* big_div_values_to_token_up return None, and do not fail, when
\* nominator * 10^24 does not fit 256 bits or the quotient does not fit u64.
C10_AbsentNotFailure ==
    (eval.fn = "big_div_values_to_token" /\ eval.b # Zero) =>
        /\ (NominatorOverflows \/ ~BigLe(FloorQuotient, U64_MAX)) => eval.r.kind = "None"
        /\ (NominatorOverflows \/ ~BigLe(CeilQuotient, U64_MAX)) => eval.r2.kind = "None"

\* The fee of eval.a on the liquidity eval.b, on unbounded integers.
ExactFee == BigDiv(BigMul(eval.a, eval.b), Pow10(18))

\* C11: to_fee(growth, liquidity) returns floor(growth * liquidity / 10^18)
\* whenever that value fits 128 bits and fails whenever it does not; it never
\* returns any other value.
C11_ToFeeFloorOrFailure ==
    eval.fn = "to_fee" =>
        IF BigLe(ExactFee, U128_MAX)
        THEN eval.r = Value(ExactFee)
        ELSE eval.r = Panic

\* The growth u128::MAX on the least liquidity whose fee does not fit.
C11_Witness ==
    /\ eval.fn = "to_fee"
    /\ eval.a = U128_MAX
    /\ eval.b = BigAdd(Pow10(18), One)
    /\ BigLt(U128_MAX, ExactFee)
    /\ eval.r.kind = "Panic"

====
